---- MODULE Spec2Model ----
(***************************************************************************)
(* Model of mnistr.py: the rotated-MNIST evaluation harness.               *)
(*                                                                         *)
(*   SpecRewrite : the checkpoint key-rewrite loop of evaluate (68-72)     *)
(*   SpecLoader  : load_cifar_r with an example cap (28-60)                *)
(*   Spec        : evaluate from the adaptation selection on (74-97),      *)
(*                 with setup_source / setup_norm / setup_tent /           *)
(*                 setup_optimizer (100-164)                               *)
(*                                                                         *)
(* Strings whose characters matter (checkpoint keys) are tuples of         *)
(* one-character strings; Python's None is the empty tuple and a present   *)
(* value v is <<v>>.                                                       *)
(***************************************************************************)
EXTENDS Integers, Sequences, FiniteSets, TLC

VARIABLES
    \* ---- checkpoint key rewrite (evaluate, lines 68-72)
    checkpoint,     \* checkpoint['net'] as read from the file
    state_dict,     \* the dict being rewritten in place (insertion ordered)
    keys,           \* list(state_dict.keys()): the snapshot iterated over
    ki,             \* position of the next key of the snapshot
    rpc,            \* "loop" | "rewritten" | "loaded" | "load_error" | "KeyError"
    \* ---- load_cifar_r (lines 28-60)
    lpc,            \* "iter" | "cat" | "returned"
    rotation,       \* argument rotation
    n_examples,     \* argument n_examples: None or <<m>>
    split_size,     \* number of examples of the test split
    li,             \* enumerate index i of the chunk loop
    x_test,         \* list of input chunks
    y_test,         \* list of label chunks
    x_out,          \* returned inputs
    y_out,          \* returned labels
    \* ---- evaluate, lines 74-97
    pc,             \* "select" | "reset" | "load" | "accuracy" | "done" | "aborted"
    ADAPTATION,     \* cfg.MODEL.ADAPTATION
    EVOLVE,         \* cfg.MODEL.EVOLVE
    EPISODIC,       \* cfg.MODEL.EPISODIC
    METHOD,         \* cfg.OPTIM.METHOD
    model,          \* the wrapped model: None or <<[kind, optimizer, episodic]>>
    adapt,          \* adaptation state of the wrapped model
    ai,             \* position of the current angle in Angles
    loaded,         \* angle whose data x_test, y_test hold: None or <<angle>>
    log,            \* the logger's lines, in order
    calls,          \* calls made so far, in order, with their outcome
    exc             \* the exception that ended the run: None or <<name>>

rvars == <<checkpoint, state_dict, keys, ki, rpc>>
lvars == <<lpc, rotation, n_examples, split_size, li, x_test, y_test, x_out, y_out>>
evars == <<pc, ADAPTATION, EVOLVE, EPISODIC, METHOD, model, adapt, ai, loaded,
           log, calls, exc>>
vars == <<rvars, lvars, evars>>

None == <<>>
Some(v) == <<v>>

(***************************************************************************)
(* Bounds                                                                  *)
(***************************************************************************)
MaxKeys == 2
SplitBound == 250

(***************************************************************************)
(* Strings                                                                 *)
(***************************************************************************)
\* the literal "module." of line 70
ModulePrefix == <<"m", "o", "d", "u", "l", "e", ".">>

StartsWith(s, old) == Len(s) >= Len(old) /\ SubSeq(s, 1, Len(old)) = old

\* old in s
Contains(s, old) ==
    \E i \in 1..(Len(s) - Len(old) + 1) : SubSeq(s, i, i + Len(old) - 1) = old

\* a bug: only the first occurrence is replaced (str.replace(old, new, 1))
RECURSIVE ReplaceFirst(_, _, _)
ReplaceFirst(s, old, new) ==
    IF Len(s) < Len(old) THEN s
    ELSE IF StartsWith(s, old)
         THEN new \o SubSeq(s, Len(old) + 1, Len(s))
         ELSE <<Head(s)>> \o ReplaceFirst(Tail(s), old, new)

\* str.replace(old, new) for a non-empty old: the non-overlapping occurrences,
\* found left to right in one pass, are replaced
RECURSIVE Replace(_, _, _)
Replace(s, old, new) ==
    IF Len(s) < Len(old) THEN s
    ELSE IF StartsWith(s, old)
         THEN new \o Replace(SubSeq(s, Len(old) + 1, Len(s)), old, new)
         ELSE <<Head(s)>> \o Replace(Tail(s), old, new)

\* new_key = key.replace("module.", "")
NewKey(key) == Replace(key, ModulePrefix, <<>>)

(***************************************************************************)
(* dict: a sequence of entries [k, v] with pairwise distinct keys, in      *)
(* insertion order                                                         *)
(***************************************************************************)
DictKeys(d) == [i \in 1..Len(d) |-> d[i].k]
DictHas(d, k) == \E i \in 1..Len(d) : d[i].k = k
DictGet(d, k) == d[CHOOSE i \in 1..Len(d) : d[i].k = k].v
DictAsSet(d) == {d[i] : i \in 1..Len(d)}

\* a bug: the entry is read but left in the dict (d[key] instead of d.pop(key))
DictGetOnly(d, k) == d

\* the dict after d.pop(k), k in d
DictPop(d, k) == SelectSeq(d, LAMBDA e : e.k # k)

\* the dict after d[k] = v: an existing key keeps its place, a new one is last
DictSet(d, k, v) ==
    IF DictHas(d, k)
    THEN [i \in 1..Len(d) |-> IF d[i].k = k THEN [k |-> k, v |-> v] ELSE d[i]]
    ELSE Append(d, [k |-> k, v |-> v])

\* state_dict[new_key] = state_dict.pop(key): the pop is evaluated first
RewriteKey(d, key) == DictSet(DictPop(d, key), NewKey(key), DictGet(d, key))

\* the whole loop of lines 69-71 on a dict d, as a function of d
RECURSIVE RewriteKeys(_, _)
RewriteKeys(d, ks) ==
    IF ks = <<>> THEN d
    ELSE IF ~DictHas(d, Head(ks)) THEN d
         ELSE RewriteKeys(RewriteKey(d, Head(ks)), Tail(ks))
RewritePass(d) == RewriteKeys(d, DictKeys(d))

(***************************************************************************)
(* Checkpoints the rewrite is run on                                       *)
(***************************************************************************)
FcW == <<"f", "c", ".", "w">>
FcB == <<"f", "c", ".", "b">>
W == <<"w">>

KeyPool ==
    { FcW,                                              \* fc.w
      FcB,                                              \* fc.b
      ModulePrefix \o FcW,                              \* module.fc.w
      ModulePrefix \o FcB,                              \* module.fc.b
      ModulePrefix \o ModulePrefix \o FcW,              \* module.module.fc.w
      <<"f", "c", ".">> \o ModulePrefix \o W,           \* fc.module.w
      <<"s", "u", "b">> \o ModulePrefix \o W,           \* submodule.w
      <<"m", "o", "d">> \o ModulePrefix
          \o <<"u", "l", "e", ".">> \o W,               \* modmodule.ule.w
      <<"m">> \o ModulePrefix
          \o <<"o", "d", "u", "l", "e", ".">> \o FcW,   \* mmodule.odule.fc.w
      ModulePrefix \o W }                               \* module.w

\* the parameter names LeNet5 expects (lenet module)
ExpectedKeys == {FcW, FcB}

\* checkpoints of at most MaxKeys parameters; the tensor of entry i is i
Checkpoints ==
    UNION { { [i \in 1..n |-> [k |-> ks[i], v |-> i]] :
                ks \in { f \in [1..n -> KeyPool] :
                           \A i, j \in 1..n : i # j => f[i] # f[j] } } :
            n \in 0..MaxKeys }

(***************************************************************************)
(* evaluate, lines 68-72                                                   *)
(***************************************************************************)
RewriteIdle ==
    /\ checkpoint = <<>> /\ state_dict = <<>> /\ keys = <<>> /\ ki = 1
    /\ rpc = "loaded"

\* one iteration of the for loop of lines 69-71
RewriteStep ==
    /\ rpc = "loop"
    /\ ki <= Len(keys)
    /\ IF DictHas(state_dict, keys[ki])
       THEN /\ state_dict' = RewriteKey(state_dict, keys[ki])
            /\ ki' = ki + 1
            /\ rpc' = rpc
       ELSE /\ rpc' = "KeyError"
            /\ UNCHANGED <<state_dict, ki>>
    /\ UNCHANGED <<checkpoint, keys, lvars, evars>>

\* the loop is exhausted
RewriteEnd ==
    /\ rpc = "loop"
    /\ ki > Len(keys)
    /\ rpc' = "rewritten"
    /\ UNCHANGED <<checkpoint, state_dict, keys, ki, lvars, evars>>

\* base_model.load_state_dict(state_dict), line 72: strict key match
LoadStateDict ==
    /\ rpc = "rewritten"
    /\ rpc' = IF {e.k : e \in DictAsSet(state_dict)} = ExpectedKeys
              THEN "loaded" ELSE "load_error"
    /\ UNCHANGED <<checkpoint, state_dict, keys, ki, lvars, evars>>

(***************************************************************************)
(* load_cifar_r, lines 28-60                                               *)
(***************************************************************************)
\* batch_size, line 41
batch_size == 100

Min(a, b) == IF a < b THEN a ELSE b

\* example j (0-based) of the unshuffled test split under the transform of
\* lines 30-34, and its label
Example(j, r) == <<j, r>>
Label(j) == j % 10

\* the number of chunks the DataLoader of lines 42-45 yields
NumChunks(n) == (n + batch_size - 1) \div batch_size

\* chunk i of the DataLoader (shuffle=False): examples batch_size*i ..., the
\* last chunk possibly short
ChunkX(i, n, r) ==
    [p \in 1..(Min(batch_size * (i + 1), n) - batch_size * i) |->
        Example(batch_size * i + p - 1, r)]
ChunkY(i, n) ==
    [p \in 1..(Min(batch_size * (i + 1), n) - batch_size * i) |->
        Label(batch_size * i + p - 1)]

\* a bug: the loop stops as soon as the chunks read cover the cap
BreakWhenCovered(i, cap) == cap # None /\ batch_size * (i + 1) >= cap[1]

\* the break test of line 51, made after chunk i was appended
ShouldBreak(i, cap) == cap # None /\ batch_size * i >= cap[1]

\* torch.cat of a list of chunks
RECURSIVE Cat(_)
Cat(chunks) == IF chunks = <<>> THEN <<>> ELSE Head(chunks) \o Cat(Tail(chunks))

\* a bug: the slice drops one example too many (t[:n - 1])
TruncateShort(t, n) == SubSeq(t, 1, Min(n - 1, Len(t)))

\* t[:n] for n >= 0
Truncate(t, n) == SubSeq(t, 1, Min(n, Len(t)))

SplitSizes == {SplitBound - 50, SplitBound}
Rotations == {0, 90}

LoaderIdle ==
    /\ lpc = "returned" /\ rotation = 0 /\ n_examples = None /\ split_size = 0
    /\ li = 0 /\ x_test = <<>> /\ y_test = <<>> /\ x_out = <<>> /\ y_out = <<>>

\* one iteration of the loop of lines 47-52: append chunk i, then test the cap
LoaderIter ==
    /\ lpc = "iter"
    /\ li < NumChunks(split_size)
    /\ x_test' = Append(x_test, ChunkX(li, split_size, rotation))
    /\ y_test' = Append(y_test, ChunkY(li, split_size))
    /\ IF ShouldBreak(li, n_examples)
       THEN lpc' = "cat" /\ li' = li
       ELSE lpc' = "iter" /\ li' = li + 1
    /\ UNCHANGED <<rotation, n_examples, split_size, x_out, y_out, rvars, evars>>

\* the DataLoader is exhausted: the loop ends without a break
LoaderExhausted ==
    /\ lpc = "iter"
    /\ li >= NumChunks(split_size)
    /\ lpc' = "cat"
    /\ UNCHANGED <<rotation, n_examples, split_size, li, x_test, y_test,
                   x_out, y_out, rvars, evars>>

\* lines 53-60: concatenate, truncate to the cap, return
LoaderReturn ==
    /\ lpc = "cat"
    /\ x_out' = IF n_examples # None
                THEN Truncate(Cat(x_test), n_examples[1]) ELSE Cat(x_test)
    /\ y_out' = IF n_examples # None
                THEN Truncate(Cat(y_test), n_examples[1]) ELSE Cat(y_test)
    /\ lpc' = "returned"
    /\ UNCHANGED <<rotation, n_examples, split_size, li, x_test, y_test,
                   rvars, evars>>

(***************************************************************************)
(* evaluate, lines 74-97, and the setup functions, lines 100-164           *)
(***************************************************************************)
Modes == {"source", "norm", "tent"}
Methods == {"Adam", "SGD", "RMSprop"}

\* range(start, stop, step) as a list, step > 0
Range(start, stop, step) ==
    [i \in 1..((stop - start + step - 1) \div step) |-> start + step * (i - 1)]

\* a bug: the sweep stops before the last angle (range(0, 180, 10))
AnglesShort == Range(0, 180, 10)

\* range(0, 181, 10), line 84
Angles == Range(0, 181, 10)

\* 1. of line 96, in percent
Unit == 100

\* a bug: any other method falls back to SGD
setup_optimizer_default(method) ==
    IF method = "Adam" THEN [raises |-> None, optimizer |-> Some("Adam")]
    ELSE [raises |-> None, optimizer |-> Some("SGD")]

\* setup_optimizer, lines 151-164, on cfg.OPTIM.METHOD
setup_optimizer(method) ==
    IF method = "Adam" THEN [raises |-> None, optimizer |-> Some("Adam")]
    ELSE IF method = "SGD" THEN [raises |-> None, optimizer |-> Some("SGD")]
    ELSE [raises |-> Some("NotImplementedError"), optimizer |-> None]

\* whether the wrapped model has a reset(): the source model is the bare
\* LeNet5, the norm and tent wrappers restore their saved state
HasReset(kind) == kind # "source"

\* the adaptation state after reset()
AdaptReset == 0

\* the adaptation state after the forward passes of one accuracy() call: only
\* tent keeps state across calls, and an episodic tent resets before each
\* forward pass
AdaptAfter(kind, episodic, a) ==
    IF kind = "tent" THEN (IF episodic THEN 1 ELSE a + 1) ELSE a

\* clean_accuracy of the wrapped model on the split rotated by angle, in
\* percent
Accuracy(kind, a, angle) ==
    Unit - 4 * (angle \div 10) - (IF kind = "source" THEN 3 ELSE 3 - Min(a, 3))

\* line 87
ResetAlways(evolve) == TRUE
ResetWanted(evolve) == ~evolve

Line(level, msg, at, arg) == [level |-> level, msg |-> msg, at |-> at, arg |-> arg]
Call(op, at, outcome, pre, post) ==
    [op |-> op, at |-> at, outcome |-> outcome, pre |-> pre, post |-> post]

\* the for statement of line 84 taking its next angle
NextAngle(i) == IF i <= Len(Angles) THEN "reset" ELSE "done"

DriverIdle ==
    /\ pc = "done" /\ ADAPTATION = "source" /\ EVOLVE = FALSE /\ EPISODIC = FALSE
    /\ METHOD = "Adam" /\ model = None /\ adapt = 0 /\ ai = 1 /\ loaded = None
    /\ log = <<>> /\ calls = <<>> /\ exc = None

\* lines 74-76 and setup_source
SetupSource ==
    /\ pc = "select"
    /\ ADAPTATION = "source"
    /\ log' = log \o << Line("INFO", "test-time adaptation: NONE", None, None),
                        Line("INFO", "model for evaluation", None, None) >>
    /\ calls' = Append(calls, Call("setup_source", None, "ok", adapt, adapt))
    /\ model' = Some([kind |-> "source", optimizer |-> None])
    /\ pc' = NextAngle(1)
    /\ UNCHANGED <<ADAPTATION, EVOLVE, EPISODIC, METHOD, adapt, ai, loaded, exc,
                   rvars, lvars>>

\* a bug: the norm wrapper is given an optimizer too
SetupNormWithOptimizer ==
    /\ pc = "select"
    /\ ADAPTATION = "norm"
    /\ LET opt == setup_optimizer(METHOD) IN
       /\ calls' = calls \o
              << Call("setup_norm", None,
                      IF opt.raises = None THEN "ok" ELSE "raise", adapt, adapt),
                 Call("setup_optimizer", None,
                      IF opt.raises = None THEN "ok" ELSE "raise", adapt, adapt) >>
       /\ IF opt.raises = None
          THEN /\ log' = log \o
                     << Line("INFO", "test-time adaptation: NORM", None, None),
                        Line("INFO", "model for adaptation", None, None),
                        Line("INFO", "stats for adaptation", None, None) >>
               /\ model' = Some([kind |-> "norm", optimizer |-> opt.optimizer])
               /\ pc' = NextAngle(1)
               /\ exc' = exc
          ELSE /\ log' = Append(log,
                         Line("INFO", "test-time adaptation: NORM", None, None))
               /\ model' = model
               /\ pc' = "aborted"
               /\ exc' = opt.raises
    /\ UNCHANGED <<ADAPTATION, EVOLVE, EPISODIC, METHOD, adapt, ai, loaded,
                   rvars, lvars>>

\* lines 77-79 and setup_norm
SetupNorm ==
    /\ pc = "select"
    /\ ADAPTATION = "norm"
    /\ log' = log \o << Line("INFO", "test-time adaptation: NORM", None, None),
                        Line("INFO", "model for adaptation", None, None),
                        Line("INFO", "stats for adaptation", None, None) >>
    /\ calls' = Append(calls, Call("setup_norm", None, "ok", adapt, adapt))
    /\ model' = Some([kind |-> "norm", optimizer |-> None])
    /\ pc' = NextAngle(1)
    /\ UNCHANGED <<ADAPTATION, EVOLVE, EPISODIC, METHOD, adapt, ai, loaded, exc,
                   rvars, lvars>>

\* lines 80-82 and setup_tent, which calls setup_optimizer (line 130) before
\* it wraps the model and logs
SetupTent ==
    /\ pc = "select"
    /\ ADAPTATION = "tent"
    /\ LET opt == setup_optimizer(METHOD) IN
       /\ calls' = calls \o
              << Call("setup_tent", None,
                      IF opt.raises = None THEN "ok" ELSE "raise", adapt, adapt),
                 Call("setup_optimizer", None,
                      IF opt.raises = None THEN "ok" ELSE "raise", adapt, adapt) >>
       /\ IF opt.raises = None
          THEN /\ log' = log \o
                     << Line("INFO", "test-time adaptation: TENT", None, None),
                        Line("INFO", "model for adaptation", None, None),
                        Line("INFO", "params for adaptation", None, None),
                        Line("INFO", "optimizer for adaptation", None,
                             opt.optimizer) >>
               /\ model' = Some([kind |-> "tent", optimizer |-> opt.optimizer])
               /\ pc' = NextAngle(1)
               /\ exc' = exc
          ELSE /\ log' = Append(log,
                         Line("INFO", "test-time adaptation: TENT", None, None))
               /\ model' = model
               /\ pc' = "aborted"
               /\ exc' = opt.raises
    /\ UNCHANGED <<ADAPTATION, EVOLVE, EPISODIC, METHOD, adapt, ai, loaded,
                   rvars, lvars>>

\* a bug: the failure of reset() is not caught
TryResetUncaught ==
    /\ pc = "reset"
    /\ ResetWanted(EVOLVE)
    /\ IF HasReset(model[1].kind)
       THEN /\ adapt' = AdaptReset
            /\ calls' = Append(calls,
                   Call("reset", Some(Angles[ai]), "ok", adapt, AdaptReset))
            /\ log' = Append(log,
                   Line("INFO", "resetting model", Some(Angles[ai]), None))
            /\ pc' = "load"
            /\ exc' = exc
       ELSE /\ adapt' = adapt
            /\ calls' = Append(calls,
                   Call("reset", Some(Angles[ai]), "raise", adapt, adapt))
            /\ log' = log
            /\ pc' = "aborted"
            /\ exc' = Some("AttributeError")
    /\ UNCHANGED <<ADAPTATION, EVOLVE, EPISODIC, METHOD, model, ai, loaded,
                   rvars, lvars>>

\* lines 87-92 when EVOLVE is false: model.reset() inside try / bare except
TryReset ==
    /\ pc = "reset"
    /\ ResetWanted(EVOLVE)
    /\ IF HasReset(model[1].kind)
       THEN /\ adapt' = AdaptReset
            /\ calls' = Append(calls,
                   Call("reset", Some(Angles[ai]), "ok", adapt, AdaptReset))
            /\ log' = Append(log,
                   Line("INFO", "resetting model", Some(Angles[ai]), None))
       ELSE /\ adapt' = adapt
            /\ calls' = Append(calls,
                   Call("reset", Some(Angles[ai]), "raise", adapt, adapt))
            /\ log' = Append(log,
                   Line("WARNING", "not resetting model", Some(Angles[ai]), None))
    /\ pc' = "load"
    /\ UNCHANGED <<ADAPTATION, EVOLVE, EPISODIC, METHOD, model, ai, loaded, exc,
                   rvars, lvars>>

\* line 87 when EVOLVE is true: the try statement is skipped
SkipReset ==
    /\ pc = "reset"
    /\ ~ResetWanted(EVOLVE)
    /\ pc' = "load"
    /\ UNCHANGED <<ADAPTATION, EVOLVE, EPISODIC, METHOD, model, adapt, ai, loaded,
                   log, calls, exc, rvars, lvars>>

\* lines 93-94: load_cifar_r(angle, None) returns
Load ==
    /\ pc = "load"
    /\ loaded' = Some(Angles[ai])
    /\ calls' = Append(calls,
           Call("load_cifar_r", Some(Angles[ai]), "ok", adapt, adapt))
    /\ pc' = "accuracy"
    /\ UNCHANGED <<ADAPTATION, EVOLVE, EPISODIC, METHOD, model, adapt, ai, log,
                   exc, rvars, lvars>>

\* lines 93-94 raise (download, memory, device): nothing catches it
LoadFail ==
    /\ pc = "load"
    /\ calls' = Append(calls,
           Call("load_cifar_r", Some(Angles[ai]), "raise", adapt, adapt))
    /\ pc' = "aborted"
    /\ exc' = Some("Exception")
    /\ UNCHANGED <<ADAPTATION, EVOLVE, EPISODIC, METHOD, model, adapt, ai, loaded,
                   log, rvars, lvars>>

\* lines 95-97: accuracy, the error line, and the for statement's next angle
AccuracyOk ==
    /\ pc = "accuracy"
    /\ LET after == AdaptAfter(model[1].kind, EPISODIC, adapt)
           acc == Accuracy(model[1].kind, after, Angles[ai])
           err == Unit - acc
       IN /\ adapt' = after
          /\ calls' = Append(calls,
                 Call("accuracy", Some(Angles[ai]), "ok", adapt, after))
          /\ log' = Append(log,
                 Line("INFO", "error %", Some(Angles[ai]), Some(err)))
    /\ ai' = ai + 1
    /\ pc' = NextAngle(ai + 1)
    /\ UNCHANGED <<ADAPTATION, EVOLVE, EPISODIC, METHOD, model, loaded, exc,
                   rvars, lvars>>

\* a bug: the failure is swallowed and the sweep goes on with the next angle
AccuracyFailCaught ==
    /\ pc = "accuracy"
    /\ calls' = Append(calls,
           Call("accuracy", Some(Angles[ai]), "raise", adapt, adapt))
    /\ ai' = ai + 1
    /\ pc' = NextAngle(ai + 1)
    /\ exc' = Some("Exception")
    /\ UNCHANGED <<ADAPTATION, EVOLVE, EPISODIC, METHOD, model, adapt, loaded,
                   log, rvars, lvars>>

\* line 95 raises: nothing catches it
AccuracyFail ==
    /\ pc = "accuracy"
    /\ calls' = Append(calls,
           Call("accuracy", Some(Angles[ai]), "raise", adapt, adapt))
    /\ pc' = "aborted"
    /\ exc' = Some("Exception")
    /\ UNCHANGED <<ADAPTATION, EVOLVE, EPISODIC, METHOD, model, adapt, ai, loaded,
                   log, rvars, lvars>>

(***************************************************************************)
(* Specifications                                                          *)
(***************************************************************************)
\* evaluate from line 74 on, for every configuration
Init ==
    /\ RewriteIdle /\ LoaderIdle
    /\ pc = "select"
    /\ ADAPTATION \in Modes /\ EVOLVE \in BOOLEAN /\ EPISODIC \in BOOLEAN
    /\ METHOD \in Methods
    /\ model = None /\ adapt = 0 /\ ai = 1 /\ loaded = None
    /\ log = <<>> /\ calls = <<>> /\ exc = None

Next ==
    \/ SetupSource \/ SetupNorm \/ SetupTent
    \/ TryReset \/ SkipReset
    \/ Load \/ LoadFail
    \/ AccuracyOk \/ AccuracyFail

Spec == Init /\ [][Next]_vars

\* the script runs to its end: a single thread, no waiting
FairSpec == Spec /\ WF_vars(Next)

\* the key rewrite of lines 68-72, for every checkpoint
InitRewrite ==
    /\ LoaderIdle /\ DriverIdle
    /\ checkpoint \in Checkpoints
    /\ state_dict = checkpoint
    /\ keys = DictKeys(checkpoint)
    /\ ki = 1
    /\ rpc = "loop"

NextRewrite == RewriteStep \/ RewriteEnd \/ LoadStateDict

SpecRewrite == InitRewrite /\ [][NextRewrite]_vars

\* load_cifar_r for every cap
InitLoader ==
    /\ RewriteIdle /\ DriverIdle
    /\ lpc = "iter"
    /\ rotation \in Rotations
    /\ split_size \in SplitSizes
    /\ n_examples \in {None} \cup {Some(m) : m \in 1..(split_size + 1)}
    /\ li = 0
    /\ x_test = <<>> /\ y_test = <<>> /\ x_out = <<>> /\ y_out = <<>>

NextLoader == LoaderIter \/ LoaderExhausted \/ LoaderReturn

SpecLoader == InitLoader /\ [][NextLoader]_vars

(***************************************************************************)
(* Properties of load_cifar_r (SpecLoader)                                 *)
(***************************************************************************)
Capped == n_examples # None
Cap == n_examples[1]

\* C1: with a cap m, 1 <= m <= N, the returned inputs and labels both have
\* length exactly m, and element j of each is example j of the split in its
\* original order: the result is the plain m-prefix of the split, for every m,
\* a multiple of the chunk size or not.
C1_CapIsPlainPrefix ==
    (lpc = "returned" /\ Capped /\ Cap >= 1 /\ Cap <= split_size) =>
        /\ Len(x_out) = Cap
        /\ Len(y_out) = Cap
        /\ \A j \in 0..(Cap - 1) :
              /\ x_out[j + 1] = Example(j, rotation)
              /\ y_out[j + 1] = Label(j)

\* a capped call with a cap that is no multiple of the chunk size has returned
C1_Witness ==
    /\ lpc = "returned" /\ Capped /\ Cap = batch_size + 50 /\ Cap <= split_size
    /\ Len(x_out) = batch_size + 50
    /\ Len(x_test) = 3

\* the chunk indices the accumulation holds once the loop has ended
LoopEnded == lpc \in {"cat", "returned"}
ChunkIndices == 0..(NumChunks(split_size) - 1)
HoldsExactly(indices) ==
    /\ Len(x_test) = Cardinality(indices)
    /\ Len(y_test) = Cardinality(indices)
    /\ indices = 0..(Len(x_test) - 1)
    /\ \A i \in indices :
          /\ x_test[i + 1] = ChunkX(i, split_size, rotation)
          /\ y_test[i + 1] = ChunkY(i, split_size)

\* C2 as stated: with a cap, the accumulated list, before truncation, holds
\* exactly the chunks with chunk_size * chunk_index < max_examples.
C2_AccumulatesWhileBelowCap ==
    (LoopEnded /\ Capped) =>
        HoldsExactly({i \in ChunkIndices : batch_size * i < Cap})

\* C2 as amended: with a cap, the accumulated list, before truncation, holds
\* exactly the chunks of the split with chunk_index = 0 or
\* chunk_size * (chunk_index - 1) < max_examples: every chunk below the cap and
\* the first chunk at or above it, on which the loop breaks.
C2_AccumulatesThroughBreakChunk ==
    (LoopEnded /\ Capped) =>
        HoldsExactly({i \in ChunkIndices : i = 0 \/ batch_size * (i - 1) < Cap})

\* the loop broke on a chunk that lies wholly at or above the cap
C2_Witness ==
    /\ lpc = "cat" /\ Capped /\ Cap = batch_size
    /\ Len(x_test) = 2
    /\ li = 1

(***************************************************************************)
(* Properties of the key rewrite (SpecRewrite)                             *)
(***************************************************************************)
RewriteOver == rpc # "loop"
KeysOf(d) == {d[i].k : i \in 1..Len(d)}

\* C7 as stated: for every mapping, a second rewrite pass leaves the mapping
\* of the first pass unchanged; equivalently no key of the mapping contains
\* "module." after one pass.
C7_RewriteIdempotent ==
    RewriteOver =>
        /\ DictAsSet(RewritePass(state_dict)) = DictAsSet(state_dict)
        /\ \A k \in KeysOf(state_dict) : ~Contains(k, ModulePrefix)

\* every occurrence of "module." in k is a whole dotted component: it starts
\* the key or follows a "."
WholeComponents(k) ==
    \A i \in 1..(Len(k) - Len(ModulePrefix) + 1) :
        SubSeq(k, i, i + Len(ModulePrefix) - 1) = ModulePrefix =>
            (i = 1 \/ k[i - 1] = ".")

\* C7 as amended: for every mapping in whose keys "module." occurs only as a
\* whole dotted component (at the start of the key or right after a "."), a
\* second rewrite pass leaves the mapping of the first pass unchanged, and no
\* key of the mapping contains "module." after one pass.
C7_RewriteIdempotentOnComponents ==
    (RewriteOver /\ \A k \in KeysOf(checkpoint) : WholeComponents(k)) =>
        /\ DictAsSet(RewritePass(state_dict)) = DictAsSet(state_dict)
        /\ \A k \in KeysOf(state_dict) : ~Contains(k, ModulePrefix)

\* a checkpoint with a doubly prefixed key and a prefixed key has been
\* rewritten and loaded
C7_Witness ==
    /\ RewriteOver
    /\ rpc = "loaded"
    /\ KeysOf(checkpoint) = { ModulePrefix \o ModulePrefix \o FcW,
                              ModulePrefix \o FcB }
    /\ KeysOf(state_dict) = { FcW, FcB }

\* C9: for every checkpoint whose rewritten keys are pairwise distinct, the
\* in-place loop never fails on a missing key and ends with as many entries as
\* the checkpoint had, mapping the rewritten form of each original key to that
\* key's original value, whatever the order of the keys.
C9_InPlaceRewriteIsTheRewrittenMapping ==
    (RewriteOver /\ \A i, j \in 1..Len(checkpoint) :
                       i # j => NewKey(checkpoint[i].k) # NewKey(checkpoint[j].k)) =>
        /\ rpc # "KeyError"
        /\ Len(state_dict) = Len(checkpoint)
        /\ DictAsSet(state_dict) =
               {[k |-> NewKey(e.k), v |-> e.v] : e \in DictAsSet(checkpoint)}

(***************************************************************************)
(* Properties of the sweep (Spec, FairSpec)                                *)
(***************************************************************************)
ErrorLines == SelectSeq(log, LAMBDA l : l.msg = "error %")
AnglesOf(lines) == [i \in 1..Len(lines) |-> lines[i].at[1]]
AngleCalls == SelectSeq(calls, LAMBDA c : c.at # None)
CallsOf(op) == SelectSeq(calls, LAMBDA c : c.op = op)
IsPrefix(p, q) == Len(p) <= Len(q) /\ p = SubSeq(q, 1, Len(p))
Last(q) == q[Len(q)]

\* the 19 angles 0, 10, ..., 180
SweepAngles == <<0, 10, 20, 30, 40, 50, 60, 70, 80, 90,
                 100, 110, 120, 130, 140, 150, 160, 170, 180>>

C3_Sweep_Inv ==
    /\ IsPrefix(AnglesOf(ErrorLines), SweepAngles)
    /\ LET ok == SelectSeq(CallsOf("accuracy"), LAMBDA c : c.outcome = "ok") IN
          /\ Len(ok) = Len(ErrorLines)
          /\ \A i \in 1..Len(ok) :
                /\ ok[i].at = ErrorLines[i].at
                /\ ErrorLines[i].arg[1]
                     + Accuracy(model[1].kind, ok[i].post, ok[i].at[1]) = Unit
    /\ pc = "aborted" => exc # None
    /\ (pc = "done") =>
          /\ exc = None
          /\ AnglesOf(ErrorLines) = SweepAngles
          /\ AnglesOf(CallsOf("accuracy")) = SweepAngles
          /\ AnglesOf(CallsOf("load_cifar_r")) = SweepAngles
          /\ ~ENABLED Next

\* C3: in a run where no step fails the driver evaluates exactly the angles
\* 0, 10, ..., 180, each once and in ascending order, logs exactly one error
\* line per angle (error = 1 - accuracy) in that order, and then terminates
\* normally after angle 180; every run ends, done or aborted by a failure.
C3_SweepVisitsEveryAngleOnce ==
    [] C3_Sweep_Inv /\ <>(pc = "done" \/ pc = "aborted")

\* a sweep has ended normally with its 19 error lines
C3_Witness ==
    /\ pc = "done" /\ exc = None
    /\ Len(ErrorLines) = 19
    /\ Last(ErrorLines).at = Some(180)

\* C4: with EVOLVE false, reset is attempted exactly once per angle, before
\* that angle's data is loaded; with EVOLVE true, reset is never attempted and
\* the adaptation state at the start of each angle after the first is the
\* state left at the end of the previous angle.
C4_ResetPolicy ==
    /\ \A p \in 1..Len(AngleCalls) :
          AngleCalls[p].op = "load_cifar_r" =>
              IF ~EVOLVE
              THEN /\ p > 1
                   /\ AngleCalls[p - 1].op = "reset"
                   /\ AngleCalls[p - 1].at = AngleCalls[p].at
              ELSE p > 1 =>
                   /\ AngleCalls[p - 1].op = "accuracy"
                   /\ AngleCalls[p - 1].at[1] < AngleCalls[p].at[1]
                   /\ AngleCalls[p].pre = AngleCalls[p - 1].post
    /\ ~EVOLVE =>
          /\ \A p, q \in 1..Len(CallsOf("reset")) :
                p # q => CallsOf("reset")[p].at # CallsOf("reset")[q].at
          /\ Len(CallsOf("reset")) =
                 IF pc \in {"select", "done"} THEN ai - 1
                 ELSE IF pc = "reset" THEN ai - 1
                 ELSE IF pc = "aborted" THEN Len(CallsOf("load_cifar_r"))
                 ELSE ai
    /\ EVOLVE => CallsOf("reset") = <<>>

\* an evolving tent sweep has carried its adaptation across all angles
C4_Witness ==
    /\ pc = "done" /\ EVOLVE /\ ADAPTATION = "tent" /\ ~EPISODIC
    /\ adapt = Len(SweepAngles)
    /\ CallsOf("reset") = <<>>

LinesAt(msg, at) == SelectSeq(log, LAMBDA l : l.msg = msg /\ l.at = at)

\* C5: whenever model.reset() raises, the driver logs the warning "not
\* resetting model" and not "resetting model" for that angle, leaves the
\* adaptation state as it was and goes on to load that angle (the run is
\* never ended by a reset); "resetting model" is logged only for a reset that
\* returned, so with EVOLVE false exactly one of the two lines is logged per
\* angle.
C5_ResetFailureIsDowngraded ==
    /\ \A p \in 1..Len(calls) :
          (calls[p].op = "reset" /\ calls[p].outcome = "raise") =>
              /\ calls[p].post = calls[p].pre
              /\ Len(LinesAt("not resetting model", calls[p].at)) = 1
              /\ LinesAt("not resetting model", calls[p].at)[1].level = "WARNING"
              /\ LinesAt("resetting model", calls[p].at) = <<>>
              /\ p < Len(calls) =>
                    /\ calls[p + 1].op = "load_cifar_r"
                    /\ calls[p + 1].at = calls[p].at
              /\ p = Len(calls) => pc = "load"
    /\ \A i \in 1..Len(log) :
          log[i].msg = "resetting model" =>
              \E p \in 1..Len(calls) :
                 /\ calls[p].op = "reset" /\ calls[p].outcome = "ok"
                 /\ calls[p].at = log[i].at
    /\ ~EVOLVE =>
          \A p \in 1..Len(calls) :
              calls[p].op = "load_cifar_r" =>
                  Len(LinesAt("not resetting model", calls[p].at))
                    + Len(LinesAt("resetting model", calls[p].at)) = 1
    /\ (ADAPTATION = "source" /\ ~EVOLVE /\ pc = "done") =>
          AnglesOf(SelectSeq(log, LAMBDA l : l.msg = "not resetting model"))
            = SweepAngles

\* a source sweep without EVOLVE has ended: every reset raised
C5_Witness ==
    /\ pc = "done" /\ ADAPTATION = "source" /\ ~EVOLVE
    /\ Len(SelectSeq(calls, LAMBDA c : c.op = "reset" /\ c.outcome = "raise")) = 19
    /\ Len(ErrorLines) = 19

\* C6: setup_optimizer returns Adam for 'Adam', SGD for 'SGD' and raises
\* NotImplementedError, returning no optimizer, for every other method; in
\* tent mode that failure ends the run during the wrapper's construction,
\* before any angle is loaded, any adaptation is made or any error line is
\* logged.
C6_UnknownOptimizerFailsEarly ==
    /\ setup_optimizer("Adam") = [raises |-> None, optimizer |-> Some("Adam")]
    /\ setup_optimizer("SGD") = [raises |-> None, optimizer |-> Some("SGD")]
    /\ (ADAPTATION = "tent" /\ pc # "select") =>
          IF METHOD \in {"Adam", "SGD"}
          THEN /\ model # None
               /\ model[1].optimizer = Some(METHOD)
               /\ exc # Some("NotImplementedError")
          ELSE /\ pc = "aborted"
               /\ exc = Some("NotImplementedError")
               /\ model = None
               /\ AngleCalls = <<>>
               /\ ErrorLines = <<>>
               /\ loaded = None
               /\ adapt = 0
               /\ ~ENABLED Next

\* a tent run with an unknown method has failed in the factory
C6_Witness ==
    /\ ADAPTATION = "tent" /\ METHOD = "RMSprop"
    /\ pc = "aborted" /\ exc = Some("NotImplementedError")
    /\ Last(calls).op = "setup_optimizer" /\ Last(calls).outcome = "raise"

\* C8: a failure at angle a while loading the data or computing the accuracy
\* is not caught: it ends the sweep, so the error lines logged are exactly
\* those of the angles before a, nothing is retried and nothing runs after it.
C8_FailureAbortsSweep ==
    \A p \in 1..Len(calls) :
        (calls[p].op \in {"load_cifar_r", "accuracy"} /\ calls[p].outcome = "raise") =>
            /\ p = Len(calls)
            /\ pc = "aborted"
            /\ exc # None
            /\ ~ENABLED Next
            /\ IsPrefix(AnglesOf(ErrorLines), SweepAngles)
            /\ \A a \in 1..Len(SweepAngles) :
                  (\E i \in 1..Len(ErrorLines) : ErrorLines[i].at[1] = SweepAngles[a])
                     <=> SweepAngles[a] < calls[p].at[1]
            /\ Len(SelectSeq(calls, LAMBDA c : c.op = calls[p].op
                                               /\ c.at = calls[p].at)) = 1

\* accuracy has failed at angle 90, after nine error lines
C8_Witness ==
    /\ pc = "aborted"
    /\ Last(calls).op = "accuracy" /\ Last(calls).outcome = "raise"
    /\ Last(calls).at = Some(90)
    /\ Len(ErrorLines) = 9

SetupOf(mode) ==
    IF mode = "source" THEN "setup_source"
    ELSE IF mode = "norm" THEN "setup_norm" ELSE "setup_tent"
SetupCalls ==
    SelectSeq(calls, LAMBDA c : c.op \in {"setup_source", "setup_norm", "setup_tent"})

\* C10: evaluate runs exactly one of setup_source, setup_norm, setup_tent,
\* the one of the mode, exactly once and before the first angle;
\* setup_optimizer is called once in tent mode and never in source or norm
\* mode, where an unknown OPTIM.METHOD does not make the run fail.
C10_OneSetupOptimizerOnlyForTent ==
    /\ pc = "select" => calls = <<>>
    /\ pc # "select" =>
          /\ Len(SetupCalls) = 1
          /\ calls[1].op = SetupOf(ADAPTATION)
          /\ SetupCalls[1] = calls[1]
          /\ Len(CallsOf("setup_optimizer")) = IF ADAPTATION = "tent" THEN 1 ELSE 0
          /\ ADAPTATION \in {"source", "norm"} =>
                /\ exc # Some("NotImplementedError")
                /\ model # None /\ model[1].optimizer = None
                /\ pc = "aborted" =>
                      /\ Last(calls).op \in {"load_cifar_r", "accuracy"}
                      /\ Last(calls).outcome = "raise"

\* a norm sweep has ended normally under an unknown optimizer method
C10_Witness ==
    /\ pc = "done" /\ exc = None
    /\ ADAPTATION = "norm" /\ METHOD = "RMSprop"
    /\ Len(ErrorLines) = 19

====
